---- MODULE Spec2Model ----
(***************************************************************************)
(* The PyPI JSON client (src/src/pypi_json/client.py) with its TTL cache   *)
(* (src/src/pypi_json/_cache.py) and exception types (exceptions.py), as a *)
(* state machine.  A call of get_package / get_release runs from one       *)
(* suspension point (await) to the next in one step: asyncio never         *)
(* preempts a coroutine between two awaits.                                *)
(***************************************************************************)
EXTENDS Integers, Sequences, FiniteSets, TLC

(* ------------------------------ bounds -------------------------------- *)
\* the monotonic clock runs over 0..MaxTime
MaxTime == 2
\* calls of get_package / get_release started in one behaviour
MaxCalls == 2
\* ClientSessions open at the same time
MaxSessions == 2
\* max_retries is drawn from 0..MaxRetriesCfg
MaxRetriesCfg == 3
\* keys of the raw "releases" object of a response body
MaxReleases == 3

(* --------------------------- Python values ---------------------------- *)
\* Optional[T]: None is the empty tuple, a value x is the 1-tuple <<x>>.
None == <<>>
Some(x) == <<x>>

\* truthiness of an Optional[int] (`if cache_ttl`): None and 0 are falsy
TruthyInt(o) == o # None /\ o[1] # 0
\* truthiness of an Optional[str] (`if version`, `if retry_after`)
TruthyStr(o) == o # None /\ o[1] # ""

\* 2**n
RECURSIVE Pow2(_)
Pow2(n) == IF n <= 0 THEN 1 ELSE 2 * Pow2(n - 1)

(* ------------------------------ inputs -------------------------------- *)
Packages == {"a"}
Versions == {"b"}
CacheTTLs == {None, Some(0), Some(1)}
Backoffs == {3}

\* Retry-After header values a 429 can carry: absent, or a string.  The
\* header is either delay-seconds or an HTTP-date (RFC 9110, 10.2.3).
HttpDate == "Wed, 21 Oct 2015 07:28:00 GMT"
RetryAfterHeaders == {None, Some("7"), Some(HttpDate)}

\* What one GET can end in: a transport failure raised by the HTTP library
\* (transport # ""), or a response with a status, headers and a body.
\* body: "ok" is a JSON object the data model accepts, "nokey" a JSON object
\* that lacks a required field, "notjson" bytes that are not JSON, "ctype"
\* a body served with a content type other than application/json.
Resp(status, hdr, body, transport) ==
    [status |-> status, retry_after |-> hdr, body |-> body, transport |-> transport]
NoResp == Resp(0, None, "", "")
Responses ==
    {Resp(200, None, b, "") : b \in {"ok", "nokey", "notjson", "ctype"}}
    \cup {Resp(s, None, "", "") : s \in {404, 500, 400}}
    \cup {Resp(429, h, "", "") : h \in RetryAfterHeaders}
    \cup {Resp(0, None, "", t) : t \in {"ClientConnectorError", "TimeoutError"}}

(* ----------------------------- exceptions ----------------------------- *)
Exc(type, status_code, retry_after, package, version, message) ==
    [type |-> type, status_code |-> status_code, retry_after |-> retry_after,
     package |-> package, version |-> version, message |-> message]
NoExc == Exc("None", 0, None, "", None, "")

PackageNotFoundError(package, version) ==
    Exc("PackageNotFoundError", 0, None, package, version,
        IF TruthyStr(version)
        THEN "Package '" \o package \o "' version '" \o version[1] \o "' not found"
        ELSE "Package '" \o package \o "' not found")
RateLimitError(retry_after) ==
    Exc("RateLimitError", 0, retry_after, "", None,
        IF TruthyInt(retry_after)
        THEN "Rate limit exceeded, retry after " \o ToString(retry_after[1]) \o " seconds"
        ELSE "Rate limit exceeded")
\* PyPIServerError that does not keep the status code it is given
PyPIServerError_nostatus(status_code, message) ==
    Exc("PyPIServerError", 0, None, "", None,
        IF TruthyStr(message)
        THEN "PyPI server error: " \o ToString(status_code) \o " - " \o message[1]
        ELSE "PyPI server error: " \o ToString(status_code))

PyPIServerError(status_code, message) ==
    Exc("PyPIServerError", status_code, None, "", None,
        IF TruthyStr(message)
        THEN "PyPI server error: " \o ToString(status_code) \o " - " \o message[1]
        ELSE "PyPI server error: " \o ToString(status_code))
RuntimeError(message) == Exc("RuntimeError", 0, None, "", None, message)
NotInitialized == RuntimeError("Client not initialized. Use 'async with' context.")
NoException == RuntimeError("Request failed with no exception")
\* exceptions of the libraries the client calls
LibError(type) == Exc(type, 0, None, "", None, "")

\* the classes an exception type is an instance of (its own and its bases)
Classes(type) ==
    CASE type \in {"PackageNotFoundError", "RateLimitError", "PyPIServerError"}
           -> {type, "PyPIError", "Exception"}
      [] type \in {"ClientConnectorError", "ContentTypeError"}
           -> {type, "ClientError", "Exception"}
      [] type = "JSONDecodeError" -> {type, "ValueError", "Exception"}
      [] type = "CancelledError" -> {type, "BaseException"}
      [] OTHER -> {type, "Exception"}
IsInstance(e, classes) == Classes(e.type) \cap classes # {}

(* ------------------------------ TTLCache ------------------------------ *)
\* TTLCache._cache is a dict: a function from the keys present to
\* [expires_at, value]; the empty dict is the function with empty domain.
EmptyDict == <<>>
DictSet(d, key, v) == [k \in DOMAIN d \cup {key} |-> IF k = key THEN v ELSE d[k]]
DictDel(d, key) == [k \in DOMAIN d \ {key} |-> d[k]]

\* TTLCache.get with the expiry test `>=`: an entry read at its expiry
\* time is already gone
TTLCache_get_early(d, key, t) ==
    IF key \notin DOMAIN d THEN [d |-> d, value |-> None]
    ELSE IF t >= d[key].expires_at THEN [d |-> DictDel(d, key), value |-> None]
    ELSE [d |-> d, value |-> Some(d[key].value)]

\* TTLCache.get at monotonic time t: the dict afterwards and the value
\* returned (None on a miss)
TTLCache_get(d, key, t) ==
    IF key \notin DOMAIN d THEN [d |-> d, value |-> None]
    ELSE IF t > d[key].expires_at THEN [d |-> DictDel(d, key), value |-> None]
    ELSE [d |-> d, value |-> Some(d[key].value)]

\* A set that keeps the entry a key already has
TTLCache_set_first(d, ttl, key, value, t) ==
    IF key \in DOMAIN d THEN d
    ELSE DictSet(d, key, [expires_at |-> t + ttl, value |-> value])

\* TTLCache.set that forgets the clock: the expiry is the TTL itself
TTLCache_set_noclock(d, ttl, key, value, t) ==
    DictSet(d, key, [expires_at |-> ttl, value |-> value])

\* TTLCache.set at monotonic time t
TTLCache_set(d, ttl, key, value, t) ==
    DictSet(d, key, [expires_at |-> t + ttl, value |-> value])

\* TTLCache.clear that drops nothing
TTLCache_clear_nothing(d) == d

\* TTLCache.clear
TTLCache_clear(d) == EmptyDict

(* ----------------------------- data model ----------------------------- *)
\* A JSON object is a Python dict: a function from the keys present to
\* their values.  d[key] raises KeyError(key) on an absent key, d.get(key)
\* gives None.
KeyError(key) == Exc("KeyError", 0, None, "", None, key)
InvalidVersion(s) == Exc("InvalidVersion", 0, None, "", None, s)
DictGet(d, key) == IF key \in DOMAIN d THEN Some(d[key]) ELSE None

\* the first key of the sequence `keys` that d lacks, as d[key] raises it
\* when the keys are subscripted in that order; NoExc when d has them all
RECURSIVE FirstMissing(_, _)
FirstMissing(d, keys) ==
    IF keys = <<>> THEN NoExc
    ELSE IF Head(keys) \notin DOMAIN d THEN KeyError(Head(keys))
    ELSE FirstMissing(d, Tail(keys))

\* the result of a from_dict: the exception raised, or the value built
Raised(e) == [raised |-> e, value |-> <<>>]
Built(v) == [raised |-> NoExc, value |-> v]

\* tuple(f(x) for x in xs) for a from_dict f given as the sequence rs of its
\* results on xs: the first exception raised, or the tuple of the values
RECURSIVE TupleOf(_)
TupleOf(rs) ==
    IF rs = <<>> THEN Built(<<>>)
    ELSE IF Head(rs).raised # NoExc THEN Raised(Head(rs).raised)
    ELSE LET rest == TupleOf(Tail(rs))
         IN IF rest.raised # NoExc THEN rest
            ELSE Built(<<Head(rs).value>> \o rest.value)

\* Digests.from_dict: every field is data.get(...), a str or None
Digests_from_dict(data) ==
    Built([md5 |-> DictGet(data, "md5"),
           sha256 |-> DictGet(data, "sha256"),
           blake2b_256 |-> DictGet(data, "blake2b_256")])

\* str.replace("Z", "+00:00") and datetime.fromisoformat on the timestamps
\* of the inputs: the datetime, None where fromisoformat raises ValueError
ReplaceZ(s) ==
    CASE s = "2024-01-01T12:00:00Z" -> "2024-01-01T12:00:00+00:00"
      [] OTHER -> s
fromisoformat(s) ==
    CASE s = "2024-01-01T12:00:00+00:00"
           -> Some([year |-> 2024, month |-> 1, day |-> 1, hour |-> 12,
                    minute |-> 0, second |-> 0, utcoffset |-> Some(0)])
      [] s = "2024-01-01T12:00:00"
           -> Some([year |-> 2024, month |-> 1, day |-> 1, hour |-> 12,
                    minute |-> 0, second |-> 0, utcoffset |-> None])
      [] OTHER -> None

\* ReleaseFile.from_dict: the subscripted keys in the order the code
\* evaluates them (upload_time first); "digests" is the last one
ReleaseFile_required ==
    <<"upload_time_iso_8601", "filename", "url", "size", "packagetype",
      "python_version", "digests">>
ReleaseFile_from_dict(data) ==
    IF "upload_time_iso_8601" \notin DOMAIN data
    THEN Raised(KeyError("upload_time_iso_8601"))
    ELSE IF fromisoformat(ReplaceZ(data["upload_time_iso_8601"])) = None
    THEN Raised(LibError("ValueError"))
    ELSE IF FirstMissing(data, ReleaseFile_required) # NoExc
    THEN Raised(FirstMissing(data, ReleaseFile_required))
    ELSE Built([filename |-> data["filename"],
                url |-> data["url"],
                size |-> data["size"],
                packagetype |-> data["packagetype"],
                python_version |-> data["python_version"],
                requires_python |-> DictGet(data, "requires_python"),
                upload_time |-> fromisoformat(ReplaceZ(data["upload_time_iso_8601"]))[1],
                digests |-> Digests_from_dict(data["digests"]).value,
                yanked |-> IF "yanked" \in DOMAIN data THEN data["yanked"] ELSE FALSE,
                yanked_reason |-> DictGet(data, "yanked_reason")])

\* Vulnerability.from_dict
Vulnerability_required == <<"id", "source", "link", "details">>
Vulnerability_from_dict(data) ==
    IF FirstMissing(data, Vulnerability_required) # NoExc
    THEN Raised(FirstMissing(data, Vulnerability_required))
    ELSE Built([id |-> data["id"], source |-> data["source"],
                link |-> data["link"],
                aliases |-> IF "aliases" \in DOMAIN data THEN data["aliases"] ELSE <<>>,
                details |-> data["details"],
                summary |-> DictGet(data, "summary"),
                fixed_in |-> IF "fixed_in" \in DOMAIN data THEN data["fixed_in"] ELSE <<>>,
                withdrawn |-> DictGet(data, "withdrawn")])

\* PackageInfo.from_dict: the subscripted keys in the order of the keyword
\* arguments; the fields read with data.get() are represented by summary
\* (None when absent), classifiers (() when absent) and yanked (False)
PackageInfo_required == <<"name", "version", "package_url", "release_url">>
PackageInfo_from_dict(data) ==
    IF FirstMissing(data, PackageInfo_required) # NoExc
    THEN Raised(FirstMissing(data, PackageInfo_required))
    ELSE Built([name |-> data["name"],
                version |-> data["version"],
                summary |-> DictGet(data, "summary"),
                classifiers |-> IF "classifiers" \in DOMAIN data
                                THEN data["classifiers"] ELSE <<>>,
                package_url |-> data["package_url"],
                release_url |-> data["release_url"],
                yanked |-> IF "yanked" \in DOMAIN data THEN data["yanked"] ELSE FALSE])

\* packaging.version.Version on the version strings of the inputs: what the
\* version compares (and hashes) by, i.e. the release segments without
\* trailing zeros and the pre-release part (None for a final release); None
\* where Version() raises InvalidVersion
Version(s) ==
    CASE s \in {"1.0", "1.0.0"} -> Some([release |-> <<1>>, pre |-> None])
      [] s = "2.0"    -> Some([release |-> <<2>>, pre |-> None])
      [] s = "2.0a1"  -> Some([release |-> <<2>>, pre |-> Some(<<"a", 1>>)])
      [] s = "2.1rc1" -> Some([release |-> <<2, 1>>, pre |-> Some(<<"rc", 1>>)])
      [] OTHER -> None

\* Version.is_prerelease
is_prerelease(v) == v.pre # None

\* v < w for two Versions: release segments first (a missing segment counts
\* as 0), then a pre-release sorts before the final release
Segment(r, i) == IF i <= Len(r) THEN r[i] ELSE 0
PhaseRank(p) == CASE p = "a" -> 1 [] p = "b" -> 2 [] p = "rc" -> 3 [] OTHER -> 0
PreLess(p, q) ==
    IF p = None THEN FALSE
    ELSE IF q = None THEN TRUE
    ELSE \/ PhaseRank(p[1][1]) < PhaseRank(q[1][1])
         \/ PhaseRank(p[1][1]) = PhaseRank(q[1][1]) /\ p[1][2] < q[1][2]
RECURSIVE ReleaseLess(_, _, _)
ReleaseLess(r, q, i) ==
    IF i > Len(r) /\ i > Len(q) THEN FALSE
    ELSE IF Segment(r, i) # Segment(q, i) THEN Segment(r, i) < Segment(q, i)
    ELSE ReleaseLess(r, q, i + 1)
VersionLess(v, w) ==
    \/ ReleaseLess(v.release, w.release, 1)
    \/ v.release = w.release /\ PreLess(v.pre, w.pre)

\* sorted() of a set of Versions, ascending
RECURSIVE sorted(_)
sorted(S) ==
    IF S = {} THEN <<>>
    ELSE LET m == CHOOSE x \in S : \A y \in S : ~VersionLess(y, x)
         IN <<m>> \o sorted(S \ {m})

\* The comprehension leaving out the items whose key is not a version
RECURSIVE releases_comprehension_skip(_, _)
releases_comprehension_skip(items, acc) ==
    IF items = <<>> THEN Built(acc)
    ELSE LET version == Head(items)[1]
             files == TupleOf([i \in 1..Len(Head(items)[2]) |->
                                 ReleaseFile_from_dict(Head(items)[2][i])])
         IN IF Version(version) = None
            THEN releases_comprehension_skip(Tail(items), acc)
            ELSE IF files.raised # NoExc THEN files
            ELSE releases_comprehension_skip(Tail(items),
                     DictSet(acc, Version(version)[1], files.value))

\* The dict comprehension of PackageMetadata.from_dict over the items of
\* the raw releases object (a sequence of <<version string, files>> in the
\* order of the JSON object), started from the dict acc: per item the key
\* Version(version) first, then the tuple of its files; a later item with
\* an equal Version replaces the files of the earlier one
RECURSIVE releases_comprehension(_, _)
releases_comprehension(items, acc) ==
    IF items = <<>> THEN Built(acc)
    ELSE LET version == Head(items)[1]
             files == TupleOf([i \in 1..Len(Head(items)[2]) |->
                                 ReleaseFile_from_dict(Head(items)[2][i])])
         IN IF Version(version) = None THEN Raised(InvalidVersion(version))
            ELSE IF files.raised # NoExc THEN files
            ELSE releases_comprehension(Tail(items),
                     DictSet(acc, Version(version)[1], files.value))

\* PackageMetadata.versions
versions(record) == sorted(DOMAIN record.releases)

\* PackageMetadata.latest_version taking the highest version overall
latest_version_overall(record) == versions(record)[Len(versions(record))]

\* PackageMetadata.latest_version (of a record with at least one release;
\* versions[-1] raises IndexError on an empty one)
latest_version(record) ==
    LET stable == SelectSeq(versions(record), LAMBDA v : ~is_prerelease(v))
    IN IF stable # <<>> THEN stable[Len(stable)]
       ELSE versions(record)[Len(versions(record))]

\* tuple(ReleaseFile.from_dict(f) for f in files), and the same for
\* vulnerabilities
ReleaseFiles(files) ==
    TupleOf([i \in 1..Len(files) |-> ReleaseFile_from_dict(files[i])])
Vulnerabilities(vs) ==
    TupleOf([i \in 1..Len(vs) |-> Vulnerability_from_dict(vs[i])])

\* data.get(key, []) of a list-valued key
GetList(data, key) == IF key \in DOMAIN data THEN data[key] ELSE <<>>

\* PackageMetadata.from_dict: the releases comprehension first, then the
\* arguments of cls(...) in their order
PackageMetadata_from_dict(data) ==
    LET releases == releases_comprehension(GetList(data, "releases"), EmptyDict)
    IN IF releases.raised # NoExc THEN releases
       ELSE IF "info" \notin DOMAIN data THEN Raised(KeyError("info"))
       ELSE IF PackageInfo_from_dict(data["info"]).raised # NoExc
       THEN PackageInfo_from_dict(data["info"])
       ELSE IF ReleaseFiles(GetList(data, "urls")).raised # NoExc
       THEN ReleaseFiles(GetList(data, "urls"))
       ELSE IF "last_serial" \notin DOMAIN data THEN Raised(KeyError("last_serial"))
       ELSE IF Vulnerabilities(GetList(data, "vulnerabilities")).raised # NoExc
       THEN Vulnerabilities(GetList(data, "vulnerabilities"))
       ELSE Built([type |-> "PackageMetadata",
                   info |-> PackageInfo_from_dict(data["info"]).value,
                   releases |-> releases.value,
                   urls |-> ReleaseFiles(GetList(data, "urls")).value,
                   last_serial |-> data["last_serial"],
                   vulnerabilities |->
                       Vulnerabilities(GetList(data, "vulnerabilities")).value])

\* ReleaseMetadata.from_dict (it does not read "releases")
ReleaseMetadata_from_dict(data) ==
    IF "info" \notin DOMAIN data THEN Raised(KeyError("info"))
    ELSE IF PackageInfo_from_dict(data["info"]).raised # NoExc
    THEN PackageInfo_from_dict(data["info"])
    ELSE IF ReleaseFiles(GetList(data, "urls")).raised # NoExc
    THEN ReleaseFiles(GetList(data, "urls"))
    ELSE IF "last_serial" \notin DOMAIN data THEN Raised(KeyError("last_serial"))
    ELSE IF Vulnerabilities(GetList(data, "vulnerabilities")).raised # NoExc
    THEN Vulnerabilities(GetList(data, "vulnerabilities"))
    ELSE Built([type |-> "ReleaseMetadata",
                info |-> PackageInfo_from_dict(data["info"]).value,
                urls |-> ReleaseFiles(GetList(data, "urls")).value,
                last_serial |-> data["last_serial"],
                vulnerabilities |->
                    Vulnerabilities(GetList(data, "vulnerabilities")).value])

(* ------------------------ data model: inputs -------------------------- *)
\* the dict with the keys of the record `opts` whose value is not None
MkDict(opts) == [k \in {k \in DOMAIN opts : opts[k] # None} |-> opts[k][1]]

FullDigests == [md5 |-> "abc", sha256 |-> "def", blake2b_256 |-> "ghi"]
DigestsSamples == {FullDigests, DictDel(FullDigests, "md5"), EmptyDict}

FullFile(digests) ==
    [upload_time_iso_8601 |-> "2024-01-01T12:00:00Z", filename |-> "a-1.0.tar.gz",
     url |-> "https://files.pythonhosted.org/a-1.0.tar.gz", size |-> 1,
     packagetype |-> "sdist", python_version |-> "source", digests |-> digests]
FileSamples ==
    {FullFile(d) : d \in DigestsSamples}
    \cup {DictDel(FullFile(FullDigests), k) : k \in {"digests", "filename"}}
    \cup {[FullFile(FullDigests) EXCEPT !.upload_time_iso_8601 = "yesterday"]}

FullInfo ==
    [name |-> "a", version |-> "1.0", summary |-> "s",
     package_url |-> "https://pypi.org/project/a/",
     release_url |-> "https://pypi.org/project/a/1.0/"]
InfoSamples ==
    {FullInfo, DictDel(FullInfo, "summary")}
    \cup {DictDel(FullInfo, k) : k \in {"name", "version", "package_url", "release_url"}}

FullVulnerability ==
    [id |-> "PYSEC-1", source |-> "osv", link |-> "https://osv.dev/PYSEC-1",
     details |-> "d"]
VulnerabilitySamples == {FullVulnerability, DictDel(FullVulnerability, "id")}

\* everything of a response body but its "releases"
Envelope(info, last_serial, urls, vulnerabilities) ==
    [info |-> info, last_serial |-> last_serial, urls |-> urls,
     vulnerabilities |-> vulnerabilities]
Envelopes ==
    {Envelope(Some(i), Some(7), None, None) : i \in InfoSamples}
    \cup {Envelope(None, Some(7), None, None),
          Envelope(Some(FullInfo), None, None, None)}
    \cup {Envelope(Some(FullInfo), Some(7), Some(<<f>>), None) : f \in FileSamples}
    \cup {Envelope(Some(FullInfo), Some(7), None, Some(<<v>>)) :
            v \in VulnerabilitySamples}

\* raw release keys: two spellings of one version, a final release, two
\* pre-releases, and a string that is not a version
VersionStrings == {"1.0", "1.0.0", "2.0", "2.0a1", "2.1rc1", "bad"}
\* the files every release of a body lists
ReleaseFileLists == {<<>>, <<FullFile(FullDigests)>>, <<FullFile(EmptyDict)>>}

\* the sequences of n distinct version strings
RECURSIVE KeySeqs(_)
KeySeqs(n) ==
    IF n = 0 THEN {<<>>}
    ELSE {ks \in {Append(q, v) : q \in KeySeqs(n - 1), v \in VersionStrings} :
             \A i, j \in 1..n : i < j => ks[i] # ks[j]}
\* the items of a raw releases object with at most MaxReleases keys
ReleaseItems ==
    {[i \in 1..Len(ks) |-> <<ks[i], files>>] :
        ks \in UNION {KeySeqs(n) : n \in 0..MaxReleases},
        files \in ReleaseFileLists}

\* the JSON objects the parsers are applied to
RawDocs ==
    {MkDict([info |-> e.info, last_serial |-> e.last_serial, urls |-> e.urls,
             vulnerabilities |-> e.vulnerabilities, releases |-> r]) :
        e \in Envelopes, r \in {None} \cup {Some(items) : items \in ReleaseItems}}

(* ------------------------------- client ------------------------------- *)
\* base_url default, after rstrip("/")
base_url == "https://pypi.org"

\* PyPIJson._get_cache_key
get_cache_key(package, version) ==
    IF TruthyStr(version)
    THEN base_url \o ":" \o package \o ":" \o version[1]
    ELSE base_url \o ":" \o package

\* the resource URLs of get_package and get_release
package_url(package) == base_url \o "/pypi/" \o package \o "/json"
release_url(package, version) ==
    base_url \o "/pypi/" \o package \o "/" \o version \o "/json"

\* Python's int() on the header strings of RetryAfterHeaders: the integer a
\* decimal string denotes, None where int() raises ValueError
PyInt(s) ==
    CASE s = "0" -> Some(0)
      [] s = "7" -> Some(7)
      [] OTHER -> None

\* The try block without `case 404`: a 404 falls through to `case status`
try_body_no404(url, resp) ==
    IF resp.transport # "" THEN LibError(resp.transport)
    ELSE IF resp.status = 200 THEN
        IF resp.body = "ctype" THEN LibError("ContentTypeError")
        ELSE IF resp.body = "notjson" THEN LibError("JSONDecodeError")
        ELSE NoExc
    ELSE IF resp.status = 429 THEN
        IF TruthyStr(resp.retry_after)
        THEN IF PyInt(resp.retry_after[1]) # None
             THEN RateLimitError(PyInt(resp.retry_after[1]))
             ELSE LibError("ValueError")
        ELSE RateLimitError(None)
    ELSE IF resp.status >= 500 THEN PyPIServerError(resp.status, None)
    ELSE PyPIServerError(resp.status,
                         Some("Unexpected status: " \o ToString(resp.status)))

\* The body of the try block of _request for one GET that ended in resp:
\* the exception it raises, NoExc when it returns the JSON body
try_body(url, resp) ==
    IF resp.transport # "" THEN LibError(resp.transport)
    ELSE IF resp.status = 200 THEN
        \* response.json(): ContentTypeError on a wrong content type,
        \* json.JSONDecodeError on bytes that are not JSON
        IF resp.body = "ctype" THEN LibError("ContentTypeError")
        ELSE IF resp.body = "notjson" THEN LibError("JSONDecodeError")
        ELSE NoExc
    ELSE IF resp.status = 404 THEN PackageNotFoundError(url, None)
    ELSE IF resp.status = 429 THEN
        IF TruthyStr(resp.retry_after)
        THEN IF PyInt(resp.retry_after[1]) # None
             THEN RateLimitError(PyInt(resp.retry_after[1]))
             ELSE LibError("ValueError")
        ELSE RateLimitError(None)
    ELSE IF resp.status >= 500 THEN PyPIServerError(resp.status, None)
    ELSE PyPIServerError(resp.status,
                         Some("Unexpected status: " \o ToString(resp.status)))

\* An except clause that names BaseException
Caught_base(e) == IsInstance(e, {"Exception", "BaseException"})

\* the exception classes the except clause of _request names
Caught(e) == IsInstance(e, {"ClientError", "PyPIServerError", "RateLimitError"})

\* The except clause keeping the first exception in last_exception
except_clause_first(last_exception, e, attempt, retries, backoff) ==
    [last_exception |-> IF last_exception # NoExc THEN last_exception ELSE e,
     reraise |-> IsInstance(e, {"PackageNotFoundError"}),
     sleep |-> IF ~IsInstance(e, {"PackageNotFoundError"}) /\ attempt < retries - 1
               THEN Some(backoff * Pow2(attempt)) ELSE None]

\* The except clause of _request for a caught exception e of attempt number
\* `attempt`: the new last_exception, whether it re-raises, and the delay it
\* sleeps (None when it does not sleep)
except_clause(last_exception, e, attempt, retries, backoff) ==
    [last_exception |-> e,
     reraise |-> IsInstance(e, {"PackageNotFoundError"}),
     sleep |-> IF ~IsInstance(e, {"PackageNotFoundError"}) /\ attempt < retries - 1
               THEN Some(backoff * Pow2(attempt)) ELSE None]

\* __init__ testing `cache_ttl is not None`: a TTL of 0 builds a cache
cache_init_not_none(ttl) ==
    IF ttl # None THEN Some([ttl |-> ttl[1], d |-> EmptyDict]) ELSE None

\* self._cache as __init__ builds it: a TTLCache (its ttl and its dict), or
\* None when cache_ttl is falsy
cache_init(ttl) ==
    IF TruthyInt(ttl) THEN Some([ttl |-> ttl[1], d |-> EmptyDict]) ELSE None

\* the JSON object response.json() gives for the bodies of Responses
BodyJson(body) ==
    IF body = "nokey"
    THEN MkDict([info |-> None, last_serial |-> Some(7), releases |-> None])
    ELSE MkDict([info |-> Some(FullInfo), last_serial |-> Some(7),
                 releases |-> Some(<<<<"1.0", <<>>>>>>)])

\* from_dict building a record out of whatever JSON object it is given
from_dict_unchecked(kind, body, n) ==
    [raised |-> NoExc,
     obj |-> [id |-> n,
              type |-> IF kind = "get_package" THEN "PackageMetadata"
                       ELSE "ReleaseMetadata"]]

\* PackageMetadata.from_dict / ReleaseMetadata.from_dict on a JSON body, in
\* call number n: a new object (its identity is the call that built it), or
\* the exception the parse raises
from_dict(kind, body, n) ==
    LET r == IF kind = "get_package" THEN PackageMetadata_from_dict(BodyJson(body))
             ELSE ReleaseMetadata_from_dict(BodyJson(body))
    IN IF r.raised # NoExc THEN [raised |-> r.raised, obj |-> [id |-> 0, type |-> ""]]
       ELSE [raised |-> NoExc, obj |-> [id |-> n, type |-> r.value.type]]

(* ------------------------------- state -------------------------------- *)
\* the slots a call of get_package / get_release runs in
Calls == {"c1", "c2"}

VARIABLES
    cache_ttl,      \* PyPIJson._cache_ttl
    max_retries,    \* PyPIJson._max_retries
    retry_backoff,  \* PyPIJson._retry_backoff
    session,        \* PyPIJson._session: None, or Some("ClientSession")
    cache,          \* PyPIJson._cache: None or Some([ttl, d]) (a TTLCache)
    now,            \* time.monotonic()
    open_sessions,  \* ClientSessions created and not closed so far
    calls,          \* per slot: the coroutine of a call and what it did
    ncalls,         \* calls started so far
    \* history
    stored,         \* per cache key: the last TTLCache.set since the last clear
    fresh_keys,     \* keys whose unexpired entry the last clear_cache dropped
                    \* and that no call has asked for since
    \* the data model on its own (models.py)
    data,           \* a JSON object handed to a from_dict
    outcome,        \* what the from_dict applied to it raised or built
    latest          \* what reading latest_version of the record gave

vars == <<cache_ttl, max_retries, retry_backoff, session, cache, now,
          open_sessions, calls, ncalls, stored, fresh_keys, data, outcome, latest>>
config == <<cache_ttl, max_retries, retry_backoff>>
client == <<cache_ttl, max_retries, retry_backoff, session, cache, now,
            open_sessions, calls, ncalls, stored, fresh_keys>>
records == <<data, outcome, latest>>

NoOutcome == [op |-> "", raised |-> NoExc, value |-> <<>>]

NoObj == [id |-> 0, type |-> ""]
IdleCall ==
    [pc |-> "idle",            \* idle, get (awaiting the response), sleep, done
     kind |-> "", package |-> "", version |-> None, key |-> "", url |-> "",
     n |-> 0,                  \* the number of this call; 0 in an idle slot
     attempt |-> 0, last_exception |-> NoExc,
     result |-> NoObj,         \* the record returned, when done
     raised |-> NoExc,         \* the exception raised to the caller, when done
     \* history of the call
     gets |-> 0,               \* GETs issued
     sleeps |-> <<>>,          \* delays of the asyncio.sleep calls, in order
     hit |-> FALSE,            \* served by the cache
     last_resp |-> NoResp,     \* what the last GET ended in
     produced |-> NoExc,       \* what the last attempt raised
     retryable_only |-> TRUE,  \* every attempt so far ended in a response
                               \* with status 429, >= 500 or other non-200/404
     read_at |-> 0,            \* the clock when the call read the cache
     pre |-> None,             \* stored[key] when the call started
     kept |-> FALSE,           \* the cache read left an entry of the key
     had_session |-> FALSE,    \* a session was active when the call started
     after_clear |-> FALSE,    \* first call for its key after a clear_cache
     get_before_clear |-> FALSE] \* a clear_cache ran while the GET in progress
                               \* was awaited

Init ==
    /\ cache_ttl \in CacheTTLs
    /\ max_retries \in 0..MaxRetriesCfg
    /\ retry_backoff \in Backoffs
    /\ session = None
    /\ cache = cache_init(cache_ttl)
    /\ now = 0
    /\ open_sessions = 0
    /\ calls = [c \in Calls |-> IdleCall]
    /\ ncalls = 0
    /\ stored = EmptyDict
    /\ fresh_keys = {}
    /\ data = EmptyDict
    /\ outcome = NoOutcome
    /\ latest = None

InFlight(c) == calls[c].pc \in {"get", "sleep"}
\* a return or raise reaches the awaiting caller in the same step of the
\* event loop: nothing else runs while a call is in "done"
NoneDone == \A c \in Calls : calls[c].pc # "done"

(* --------------------------- session scope ---------------------------- *)
\* __aenter__: a new ClientSession replaces whatever self._session held
aenter ==
    /\ NoneDone
    /\ open_sessions < MaxSessions
    /\ session' = Some("ClientSession")
    /\ open_sessions' = open_sessions + 1
    /\ UNCHANGED <<config, records, cache, now, calls, ncalls, stored,
                   fresh_keys>>

\* __aexit__ (its exception arguments are ignored): closes the session
\* self._session holds, if any
aexit ==
    /\ NoneDone
    /\ IF session # None
       THEN open_sessions' = open_sessions - 1 /\ session' = None
       ELSE UNCHANGED <<open_sessions, session>>
    /\ UNCHANGED <<config, records, cache, now, calls, ncalls, stored,
                   fresh_keys>>

(* ----------------------------- the clock ------------------------------ *)
Tick ==
    /\ NoneDone
    /\ now < MaxTime
    /\ now' = now + 1
    /\ UNCHANGED <<config, records, session, cache, open_sessions, calls, ncalls,
                   stored, fresh_keys>>

(* ---------------------------- clear_cache ----------------------------- *)
Unexpired(k) == k \in DOMAIN stored /\ now <= stored[k].at + cache[1].ttl

clear_cache ==
    /\ NoneDone
    /\ IF cache # None
       THEN /\ cache' = Some([cache[1] EXCEPT !.d = TTLCache_clear(@)])
            /\ fresh_keys' = IF \E c \in Calls : InFlight(c) THEN {}
                             ELSE {k \in DOMAIN cache[1].d : Unexpired(k)}
            /\ calls' = [c \in Calls |->
                            IF calls[c].pc = "get"
                            THEN [calls[c] EXCEPT !.get_before_clear = TRUE]
                            ELSE calls[c]]
       ELSE UNCHANGED <<cache, fresh_keys, calls>>
    /\ stored' = EmptyDict
    /\ UNCHANGED <<config, records, session, now, open_sessions, ncalls>>

(* ------------------------ get_package / get_release -------------------- *)
\* the call ends: it returns obj, or raises e (NoExc when it returns)
Finished(cl, obj, e) ==
    [cl EXCEPT !.pc = "done", !.result = obj, !.raised = e,
               !.last_exception = NoExc]

Finish(c, cl, obj, e) == calls' = [calls EXCEPT ![c] = Finished(cl, obj, e)]

\* The call starts attempt number cl.attempt of the loop of _request: the
\* loop is over (raise last_exception, or the RuntimeError when there is
\* none), or the GET is issued on self._session (an AttributeError when
\* self._session is None by now).
start_attempt(cl) ==
    IF cl.attempt >= max_retries
    THEN Finished(cl, NoObj,
                  IF cl.last_exception # NoExc THEN cl.last_exception ELSE NoException)
    ELSE IF session = None
    THEN Finished([cl EXCEPT !.retryable_only = FALSE,
                             !.produced = LibError("AttributeError")],
                  NoObj, LibError("AttributeError"))
    ELSE [cl EXCEPT !.pc = "get", !.gets = @ + 1, !.get_before_clear = FALSE]

\* get_package / get_release up to the first await: the cache lookup, then
\* _request up to its first GET
Call(c, kind, package, version, key, url) ==
    /\ calls[c].pc = "idle"
    /\ ncalls < MaxCalls
    /\ ncalls' = ncalls + 1
    /\ LET got == IF cache # None THEN TTLCache_get(cache[1].d, key, now)
                  ELSE [d |-> EmptyDict, value |-> None]
           cl == [IdleCall EXCEPT
                    !.kind = kind, !.package = package, !.version = version,
                    !.key = key, !.url = url, !.n = ncalls + 1,
                    !.read_at = now,
                    !.pre = IF key \in DOMAIN stored THEN Some(stored[key]) ELSE None,
                    !.kept = (cache # None /\ key \in DOMAIN got.d),
                    !.had_session = (session # None),
                    !.after_clear = (key \in fresh_keys)]
       IN /\ cache' = IF cache # None THEN Some([cache[1] EXCEPT !.d = got.d])
                      ELSE cache
          /\ fresh_keys' = fresh_keys \ {key}
          /\ IF got.value # None
             THEN Finish(c, [cl EXCEPT !.hit = TRUE], got.value[1], NoExc)
             ELSE IF session = None
             THEN Finish(c, cl, NoObj, NotInitialized)
             ELSE calls' = [calls EXCEPT ![c] = start_attempt(cl)]
    /\ UNCHANGED <<config, records, session, now, open_sessions, stored>>

get_package(c, package) ==
    Call(c, "get_package", package, None,
         get_cache_key(package, None), package_url(package))

get_release(c, package, version) ==
    Call(c, "get_release", package, Some(version),
         get_cache_key(package, Some(version)), release_url(package, version))

\* statuses that the claims call retryable failures
RetryableStatus(resp) ==
    resp.transport = "" /\ resp.status \notin {0, 200, 404}

\* A call that ends at the response whatever it is and, with a cache, stores
\* what it has (no record, for a failure) under its key
request_respond_caching(c, resp) ==
    /\ calls[c].pc = "get"
    /\ LET cl == [calls[c] EXCEPT !.last_resp = resp,
                                  !.produced = try_body(calls[c].url, resp)]
       IN /\ Finish(c, cl, NoObj, try_body(cl.url, resp))
          /\ cache' = IF cache # None
                      THEN Some([cache[1] EXCEPT
                               !.d = TTLCache_set(@, cache[1].ttl, cl.key, NoObj, now)])
                      ELSE cache
    /\ UNCHANGED <<config, records, session, now, open_sessions, ncalls, stored,
                   fresh_keys>>

\* The GET of the call ends in resp: the rest of the attempt, and whatever
\* follows up to the next await or the end of the call.
request_respond(c, resp) ==
    /\ calls[c].pc = "get"
    /\ LET cl == [calls[c] EXCEPT
                    !.last_resp = resp,
                    !.produced = try_body(calls[c].url, resp),
                    !.retryable_only = (@ /\ RetryableStatus(resp))]
           e == try_body(cl.url, resp)
           parsed == from_dict(cl.kind, resp.body, cl.n)
           h == except_clause(cl.last_exception, e, cl.attempt, max_retries,
                              retry_backoff)
       IN IF e = NoExc
          THEN \* back in get_package / get_release with the JSON body
               IF parsed.raised # NoExc
               THEN /\ Finish(c, [cl EXCEPT !.produced = parsed.raised], NoObj,
                              parsed.raised)
                    /\ UNCHANGED <<cache, stored>>
               ELSE /\ Finish(c, cl, parsed.obj, NoExc)
                    /\ IF cache # None
                       THEN /\ cache' = Some([cache[1] EXCEPT
                                    !.d = TTLCache_set(@, cache[1].ttl, cl.key,
                                                       parsed.obj, now)])
                            /\ stored' = DictSet(stored, cl.key,
                                    [at |-> now, obj |-> parsed.obj, kind |-> cl.kind,
                                     package |-> cl.package, version |-> cl.version,
                                     gets |-> cl.gets,
                                     get_before_clear |-> cl.get_before_clear])
                       ELSE UNCHANGED <<cache, stored>>
          ELSE IF ~Caught(e) \/ h.reraise
          THEN /\ Finish(c, cl, NoObj, e)
               /\ UNCHANGED <<cache, stored>>
          ELSE IF h.sleep # None
          THEN /\ calls' = [calls EXCEPT ![c] =
                              [cl EXCEPT !.pc = "sleep",
                                         !.last_exception = h.last_exception,
                                         !.sleeps = Append(@, h.sleep[1])]]
               /\ UNCHANGED <<cache, stored>>
          ELSE /\ calls' = [calls EXCEPT ![c] =
                              start_attempt([cl EXCEPT
                                  !.last_exception = h.last_exception,
                                  !.attempt = @ + 1])]
               /\ UNCHANGED <<cache, stored>>
    /\ UNCHANGED <<config, records, session, now, open_sessions, ncalls, fresh_keys>>

\* asyncio.sleep returns: the next attempt of the loop
request_wake(c) ==
    /\ calls[c].pc = "sleep"
    /\ calls' = [calls EXCEPT ![c] = start_attempt([calls[c] EXCEPT !.attempt = @ + 1])]
    /\ UNCHANGED <<config, records, session, cache, now, open_sessions, ncalls, stored,
                   fresh_keys>>

\* the caller has the result of the call (or its exception): the coroutine
\* is gone
call_return(c) ==
    /\ calls[c].pc = "done"
    /\ calls' = [calls EXCEPT ![c] = IdleCall]
    /\ UNCHANGED <<config, records, session, cache, now, open_sessions, ncalls, stored,
                   fresh_keys>>

\* The task awaiting the call is cancelled while the call is suspended:
\* asyncio raises CancelledError at the await.  In a network wait that is
\* inside the try block of _request, like a failure of the GET; in a
\* backoff sleep it is inside the except clause, which nothing encloses.
cancel(c) ==
    IF calls[c].pc = "sleep"
    THEN /\ Finish(c, [calls[c] EXCEPT !.produced = LibError("CancelledError")],
                   NoObj, LibError("CancelledError"))
         /\ UNCHANGED <<config, records, session, cache, now, open_sessions, ncalls,
                        stored, fresh_keys>>
    ELSE request_respond(c, Resp(0, None, "", "CancelledError"))

(* --------------------------- specifications --------------------------- *)
\* One caller task: it makes its calls one after the other (slot c1) and is
\* suspended in `await` while a call runs, so between the awaits of a call
\* only the clock moves.
Quiet == \A c \in Calls : ~InFlight(c)

Next ==
    \/ Quiet /\ aenter
    \/ Quiet /\ aexit
    \/ Quiet /\ clear_cache
    \/ Tick
    \/ \E p \in Packages : get_package("c1", p)
    \/ \E p \in Packages, v \in Versions : get_release("c1", p, v)
    \/ \E r \in Responses : request_respond("c1", r)
    \/ request_wake("c1")
    \/ call_return("c1")

Spec == Init /\ [][Next]_vars

\* The same caller, with the scheduling asyncio gives a running call: a GET
\* ends (in a response or a failure; the session's total timeout bounds
\* it), a sleep returns, and a finished call returns to its caller.
FairSpec ==
    /\ Spec
    /\ WF_vars(\E r \in Responses : request_respond("c1", r))
    /\ WF_vars(request_wake("c1"))
    /\ WF_vars(call_return("c1"))

(* ----------------------- the data model on its own ------------------- *)
\* A client that makes no call, and one JSON object of RawDocs.
ModelInit ==
    /\ cache_ttl = None
    /\ max_retries = 0
    /\ retry_backoff \in Backoffs
    /\ session = None
    /\ cache = cache_init(cache_ttl)
    /\ now = 0
    /\ open_sessions = 0
    /\ calls = [c \in Calls |-> IdleCall]
    /\ ncalls = 0
    /\ stored = EmptyDict
    /\ fresh_keys = {}
    /\ data \in RawDocs
    /\ outcome = NoOutcome
    /\ latest = None

\* PackageMetadata.from_dict(data)
parse_package ==
    /\ outcome = NoOutcome
    /\ outcome' = [op |-> "PackageMetadata.from_dict",
                  raised |-> PackageMetadata_from_dict(data).raised,
                  value |-> PackageMetadata_from_dict(data).value]
    /\ UNCHANGED <<client, data, latest>>

\* ReleaseMetadata.from_dict(data)
parse_release ==
    /\ outcome = NoOutcome
    /\ outcome' = [op |-> "ReleaseMetadata.from_dict",
                  raised |-> ReleaseMetadata_from_dict(data).raised,
                  value |-> ReleaseMetadata_from_dict(data).value]
    /\ UNCHANGED <<client, data, latest>>

\* reading .latest_version of the PackageMetadata that was built
read_latest_version ==
    /\ outcome.op = "PackageMetadata.from_dict"
    /\ outcome.raised = NoExc
    /\ latest = None
    /\ latest' = Some(IF DOMAIN outcome.value.releases = {}
                      THEN Raised(LibError("IndexError"))
                      ELSE Built(latest_version(outcome.value)))
    /\ UNCHANGED <<client, data, outcome>>

ModelNext == parse_package \/ parse_release \/ read_latest_version

ModelSpec == ModelInit /\ [][ModelNext]_vars

(* --------------------------- concurrent calls -------------------------- *)
\* Several tasks share one caching client with max_retries = 2: calls run
\* in both slots, and entering, leaving, clearing and cancelling happen
\* between any two steps of a call.
ConcResponses == {Resp(200, None, "ok", ""), Resp(500, None, "", "")}

ConcInit ==
    /\ Init
    /\ cache_ttl = Some(1)
    /\ max_retries = 2

ConcNext ==
    \/ aenter
    \/ aexit
    \/ clear_cache
    \/ Tick
    \/ \E c \in Calls, p \in Packages : get_package(c, p)
    \/ \E c \in Calls, p \in Packages, v \in Versions : get_release(c, p, v)
    \/ \E c \in Calls, r \in ConcResponses : request_respond(c, r)
    \/ \E c \in Calls : request_wake(c)
    \/ \E c \in Calls : call_return(c)
    \/ \E c \in Calls : cancel(c)

ConcSpec == ConcInit /\ [][ConcNext]_vars

(* ------------------------ the cache key on its own -------------------- *)
\* One caller of a caching client whose GETs are all answered 200, asking
\* for package names and versions that include the empty version and a
\* name with a colon.
KeyPackages == {"a", "a:b"}
KeyVersions == {"b", ""}

KeyInit ==
    /\ Init
    /\ cache_ttl = Some(1)
    /\ max_retries = 1

KeyNext ==
    \/ Quiet /\ aenter
    \/ \E p \in KeyPackages : get_package("c1", p)
    \/ \E p \in KeyPackages, v \in KeyVersions : get_release("c1", p, v)
    \/ request_respond("c1", Resp(200, None, "ok", ""))
    \/ call_return("c1")

KeySpec == KeyInit /\ [][KeyNext]_vars

(* ------------------------------- claims ------------------------------- *)
CachingEnabled == TruthyInt(cache_ttl)
TTL == cache_ttl[1]

\* the request of call record cl is the one that stored st
SameRequest(cl, st) ==
    st.kind = cl.kind /\ st.package = cl.package /\ st.version = cl.version

\* C1: a 404 response, on whatever attempt, ends the call at that attempt
\* with PackageNotFoundError: the call is over in the step that received
\* the 404, having issued one GET per attempt up to that one and slept once
\* per earlier attempt only (so no GET and no sleep follows the 404; a 404
\* on the first attempt is one GET and zero sleeps).
C1_NotFoundEndsCall ==
    \A c \in Calls :
        calls[c].last_resp.status = 404 =>
            /\ calls[c].pc = "done"
            /\ calls[c].raised.type = "PackageNotFoundError"
            /\ calls[c].gets = calls[c].attempt + 1
            /\ Len(calls[c].sleeps) = calls[c].attempt

\* a call that received a 404 on its second attempt
C1_Witness ==
    \E c \in Calls :
        /\ calls[c].pc = "done"
        /\ calls[c].last_resp.status = 404
        /\ calls[c].attempt = 1
        /\ calls[c].gets = 2

\* the delays retry_backoff * 2^i, i = 0 .. n-1
Backoff(n) == [i \in 1..n |-> retry_backoff * Pow2(i - 1)]

\* C2 (as claimed): a call with max_retries = N >= 1 whose attempts all
\* ended in a response with a retryable status (429, >= 500, other
\* non-200/404), whatever the Retry-After value, has issued exactly N GETs,
\* has raised, and has slept retry_backoff * 2^i after attempt i < N - 1 and
\* not after the last.
C2_ExactAttemptsAndBackoff ==
    \A c \in Calls :
        (/\ calls[c].pc = "done"
         /\ calls[c].gets >= 1
         /\ calls[c].retryable_only
         /\ max_retries >= 1)
        => /\ calls[c].gets = max_retries
           /\ calls[c].raised # NoExc
           /\ calls[c].sleeps = Backoff(max_retries - 1)

\* the call is one of a run of calls for the same request made within the
\* TTL of the call that stored the entry
WithinTTL(cl) ==
    /\ cl.pc # "idle"
    /\ cl.had_session
    /\ cl.pre # None
    /\ SameRequest(cl, cl.pre[1])
    /\ cl.read_at <= cl.pre[1].at + TTL

\* C3 (amended): with caching enabled and an active session, a call made
\* within the TTL of the successful call for the same request issues no
\* GET and returns the identical object that call returned; the GETs of
\* the whole run are those of the first call.
C3_CachedIdentity ==
    CachingEnabled =>
        \A c \in Calls :
            WithinTTL(calls[c]) =>
                /\ calls[c].pc = "done"
                /\ calls[c].raised = NoExc
                /\ calls[c].result = calls[c].pre[1].obj
                /\ calls[c].gets = 0

\* a second call served the object of the first, which needed two GETs
C3_Witness ==
    \E c \in Calls :
        /\ CachingEnabled
        /\ WithinTTL(calls[c])
        /\ calls[c].pc = "done"
        /\ calls[c].result.id = 1
        /\ calls[c].n = 2
        /\ calls[c].pre[1].gets = 2

\* C3 (as claimed): the run issues exactly one GET in total
C3_ExactlyOneGet ==
    CachingEnabled =>
        \A c \in Calls :
            WithinTTL(calls[c]) =>
                /\ calls[c].pc = "done"
                /\ calls[c].raised = NoExc
                /\ calls[c].result = calls[c].pre[1].obj
                /\ calls[c].pre[1].gets + calls[c].gets = 1

\* C4: with caching disabled (cache_ttl None or 0) a call with a session
\* and at least one attempt issues a GET, a call that returns has issued a
\* GET and returns the record it parsed itself (a new object, so no two
\* calls return the identical one), and clear_cache changes nothing.
C4_State ==
    ~CachingEnabled =>
        \A c \in Calls :
            /\ (calls[c].pc # "idle" /\ calls[c].had_session /\ max_retries >= 1)
                    => calls[c].gets >= 1
            /\ (calls[c].pc = "done" /\ calls[c].raised = NoExc)
                    => /\ calls[c].gets >= 1
                       /\ ~calls[c].hit
                       /\ calls[c].result.id = calls[c].n
C4_NoCacheFreshFetch ==
    /\ []C4_State
    /\ [][(~CachingEnabled /\ clear_cache) => UNCHANGED vars]_vars

\* the second call of a client with cache_ttl = 0 returned its own record
C4_Witness ==
    \E c \in Calls :
        /\ cache_ttl = Some(0)
        /\ calls[c].pc = "done"
        /\ calls[c].raised = NoExc
        /\ calls[c].n = 2
        /\ calls[c].result.id = 2

\* C5: the first call for a key after a clear_cache that dropped the
\* unexpired entry of the key (no call in flight) is not served by the
\* cache; with a session and at least one attempt it issues a GET.
C5_ClearForcesFetch ==
    \A c \in Calls :
        (calls[c].pc # "idle" /\ calls[c].after_clear) =>
            /\ ~calls[c].hit
            /\ (calls[c].had_session /\ max_retries >= 1) => calls[c].gets >= 1

\* such a call, made before the dropped entry would have expired
C5_Witness ==
    \E c \in Calls :
        /\ calls[c].after_clear
        /\ calls[c].pc = "done"
        /\ calls[c].raised = NoExc
        /\ calls[c].gets >= 1
        /\ calls[c].read_at = 0

\* C6: every cache entry expires exactly TTL after the clock of the set
\* that stored it, and holds the object that set stored, in every state (so
\* no read moves an expiry); a call that reads the key no later than the
\* expiry is served the stored object and leaves the entry in place; a call
\* that reads it later finds the entry gone and misses: with a session and
\* at least one attempt it issues a GET, and when it succeeds the entry of
\* the key is the record it parsed.
C6_Entries ==
    CachingEnabled =>
        \A k \in DOMAIN cache[1].d :
            /\ k \in DOMAIN stored
            /\ cache[1].d[k].expires_at = stored[k].at + TTL
            /\ cache[1].d[k].value = stored[k].obj
C6_Reads ==
    CachingEnabled =>
        \A c \in Calls :
            (calls[c].pc # "idle" /\ calls[c].pre # None) =>
                IF calls[c].read_at <= calls[c].pre[1].at + TTL
                THEN /\ calls[c].hit
                     /\ calls[c].result = calls[c].pre[1].obj
                     /\ calls[c].kept
                ELSE /\ ~calls[c].hit
                     /\ ~calls[c].kept
                     /\ (calls[c].had_session /\ max_retries >= 1)
                            => calls[c].gets >= 1
                     /\ (calls[c].pc = "done" /\ calls[c].raised = NoExc)
                            => /\ calls[c].result.id = calls[c].n
                               /\ calls[c].key \in DOMAIN cache[1].d
                               /\ cache[1].d[calls[c].key].value = calls[c].result
C6_ExpiryExact == C6_Entries /\ C6_Reads

\* a call that read the key after the expiry, fetched, and stored at clock 2
C6_Witness ==
    \E c \in Calls :
        /\ CachingEnabled
        /\ calls[c].pre # None
        /\ calls[c].read_at > calls[c].pre[1].at + TTL
        /\ calls[c].pc = "done"
        /\ calls[c].raised = NoExc
        /\ cache[1].d[calls[c].key].expires_at = 2 + TTL

\* C7 (as claimed): a call made while no session is active raises the
\* not-initialized RuntimeError and issues no GET, whatever the cache holds.
C7_NoSessionAlwaysRaises ==
    \A c \in Calls :
        (calls[c].pc # "idle" /\ ~calls[c].had_session) =>
            /\ calls[c].pc = "done"
            /\ calls[c].raised = NotInitialized
            /\ calls[c].gets = 0

\* C8 (as claimed): once the client has been released it holds no session
\* and every ClientSession it created has been closed.  (A released client
\* is one with self._session = None: initially, and after any __aexit__;
\* further __aexit__ calls, such as the exit of an enclosing scope, change
\* neither self._session nor the sessions that are open.)
C8_ReleasedMeansAllClosed ==
    session = None => open_sessions = 0

\* C9: a call never issues more than max_retries GETs; a call in flight can
\* always move on and, under FairSpec, ends; and a call with
\* max_retries >= 1 that fails on its last attempt raises what that attempt
\* raised (the last failure, not an earlier one).
C9_State ==
    \A c \in Calls :
        /\ calls[c].gets <= max_retries
        /\ (/\ calls[c].pc = "done"
            /\ max_retries >= 1
            /\ calls[c].gets = max_retries
            /\ calls[c].raised # NoExc)
           => calls[c].raised = calls[c].produced
C9_BoundedRetryLastFailure ==
    /\ []C9_State
    /\ \A c \in Calls : InFlight(c) ~> (calls[c].pc = "done")

\* three failed attempts of different kinds, the last one raised
C9_Witness ==
    \E c \in Calls :
        /\ calls[c].pc = "done"
        /\ max_retries = 3
        /\ calls[c].gets = 3
        /\ calls[c].retryable_only
        /\ calls[c].sleeps = <<3, 6>>
        /\ calls[c].raised = PyPIServerError(400, Some("Unexpected status: 400"))

\* C10 (as claimed): a 429 response is turned into a RateLimitError that
\* carries an integer when the Retry-After header is present and None when
\* it is absent, and it is retried: a call that ends on a 429 was on its
\* last attempt (its GET number max_retries) and raises that RateLimitError.
C10_RateLimitedClassified ==
    \A c \in Calls :
        calls[c].last_resp.status = 429 =>
            /\ calls[c].produced.type = "RateLimitError"
            /\ (calls[c].last_resp.retry_after = None)
                    <=> (calls[c].produced.retry_after = None)
            /\ calls[c].pc = "done"
                    => /\ calls[c].gets = max_retries
                       /\ calls[c].raised = calls[c].produced

\* statuses other than 200, 404 and 429: some below 500, some from 500 on
OtherStatuses == {400, 403, 418, 499, 500, 502, 503, 599}

\* C11: every status other than 200, 404 and 429 is turned into a
\* PyPIServerError carrying that status code: from 500 on without a detail
\* message, below 500 with the message "Unexpected status: <status>".  Both
\* kinds are retried alike: what the call does after such a response depends
\* on the attempt number, max_retries and retry_backoff only (it sleeps
\* retry_backoff * 2^attempt when the attempt is not the last, and when it is
\* the last the call ends, after max_retries GETs, raising this error).
C11_Classified(status, e) ==
    /\ e.type = "PyPIServerError"
    /\ e.status_code = status
    /\ e.message = IF status >= 500
                   THEN "PyPI server error: " \o ToString(status)
                   ELSE "PyPI server error: " \o ToString(status)
                            \o " - Unexpected status: " \o ToString(status)
C11_ServerErrorTotal ==
    /\ \A st \in OtherStatuses :
            C11_Classified(st, try_body(package_url("a"), Resp(st, None, "", "")))
    /\ \A c \in Calls :
         LET cl == calls[c] IN
          (cl.last_resp.transport = "" /\ cl.last_resp.status \notin {0, 200, 404, 429})
          => /\ C11_Classified(cl.last_resp.status, cl.produced)
             /\ cl.sleeps = Backoff(Len(cl.sleeps))
             /\ cl.pc = "sleep"
                  => /\ cl.attempt < max_retries - 1
                     /\ Len(cl.sleeps) = cl.attempt + 1
                     /\ cl.last_exception = cl.produced
             \* the next GET is issued only after that sleep
             /\ cl.pc = "get"
                  => /\ cl.attempt < max_retries
                     /\ Len(cl.sleeps) = cl.attempt
                     /\ cl.gets = cl.attempt + 1
                     /\ cl.last_exception = cl.produced
             /\ cl.pc = "done"
                  => /\ cl.attempt = max_retries
                     /\ cl.gets = max_retries
                     /\ Len(cl.sleeps) = max_retries - 1
                     /\ cl.raised = cl.produced

\* a call whose second and last attempt got a 400 after one backoff sleep
C11_Witness ==
    \E c \in Calls :
        /\ calls[c].pc = "done"
        /\ max_retries = 2
        /\ calls[c].last_resp.status = 400
        /\ calls[c].gets = 2
        /\ calls[c].sleeps = <<3>>
        /\ calls[c].raised.status_code = 400

\* C12 (as claimed): a response with status 200 ends the attempt loop,
\* whether or not response.json() succeeds: the call is over in the step
\* that received the 200, having slept only between its GETs (no GET and no
\* sleep follows the 200).
C12_OkEndsLoop ==
    \A c \in Calls :
        calls[c].last_resp.status = 200 =>
            /\ calls[c].pc = "done"
            /\ Len(calls[c].sleeps) = calls[c].gets - 1

\* C13 (as claimed): every transport failure of a GET (connection refused,
\* request timeout) is retried: the call that got one sleeps the backoff
\* delay when the attempt was not the last, and ends only on its last
\* attempt (after max_retries GETs), raising that failure.
C13_TransportRetried ==
    \A c \in Calls :
        LET cl == calls[c] IN
        cl.last_resp.transport # "" =>
            /\ cl.produced = LibError(cl.last_resp.transport)
            /\ cl.pc = "sleep"
                 => /\ cl.attempt < max_retries - 1
                    /\ cl.sleeps = Backoff(cl.attempt + 1)
            /\ cl.pc = "done"
                 => /\ cl.gets = max_retries
                    /\ cl.raised = cl.produced

\* the digests objects a from_dict gets to parse in the files listed under
\* `key` of the JSON object d
DigestsIn(d, key) ==
    {d[key][i].digests : i \in {i \in 1..Len(GetList(d, key)) :
                                    "digests" \in DOMAIN d[key][i]}}
\* the JSON object lacks a required field of the record that `op` builds
LacksRequired(d, op) ==
    \/ "info" \notin DOMAIN d
    \/ \E k \in {"name", "version", "package_url", "release_url"} :
            "info" \in DOMAIN d /\ k \notin DOMAIN d.info
    \/ "last_serial" \notin DOMAIN d
    \/ \E g \in DigestsIn(d, "urls"), k \in {"md5", "sha256", "blake2b_256"} :
            k \notin DOMAIN g

\* C14 (as claimed): a from_dict applied to a JSON object that lacks a
\* required field (info.name, info.version, info.package_url,
\* info.release_url, last_serial, or md5 / sha256 / blake2b_256 of a digests
\* object) fails, and fails with MalformedResponse.
C14_MissingRequiredIsMalformed ==
    (outcome.op # "" /\ LacksRequired(data, outcome.op))
        => outcome.raised.type = "MalformedResponse"

\* C15 (as claimed): a call that has ended has returned a value or raised
\* one of PackageNotFoundError, RateLimitError, PyPIServerError,
\* MalformedResponse or the not-initialized RuntimeError, and that
\* RuntimeError only when no session was active; nothing else reaches the
\* caller.
C15_OnlyTaxonomy ==
    \A c \in Calls :
        calls[c].pc = "done" =>
            \/ calls[c].raised = NoExc /\ calls[c].result # NoObj
            \/ calls[c].raised.type \in {"PackageNotFoundError", "RateLimitError",
                                         "PyPIServerError", "MalformedResponse"}
            \/ calls[c].raised = NotInitialized /\ ~calls[c].had_session

\* the last GET of the call was answered 200 with a JSON object that the
\* data model rejects (it has no "info")
ParseFailed(cl) ==
    /\ cl.last_resp.status = 200
    /\ try_body(cl.url, cl.last_resp) = NoExc
    /\ "info" \notin DOMAIN BodyJson(cl.last_resp.body)

\* C16: a failure of PackageMetadata.from_dict / ReleaseMetadata.from_dict
\* on the fetched JSON object is terminal: the call is over in the step
\* that received the body, it raises the exception of the parse (the
\* KeyError of the missing key) to its caller, and it has slept only
\* between its GETs (no GET and no sleep follows the failure).
C16_ParseFailureTerminal ==
    \A c \in Calls :
        ParseFailed(calls[c]) =>
            /\ calls[c].pc = "done"
            /\ calls[c].raised = KeyError("info")
            /\ calls[c].result = NoObj
            /\ Len(calls[c].sleeps) = calls[c].gets - 1

\* a call whose first GET got a 500 and whose second got such a body, with
\* a third attempt left
C16_Witness ==
    \E c \in Calls :
        /\ ParseFailed(calls[c])
        /\ calls[c].pc = "done"
        /\ max_retries = 3
        /\ calls[c].gets = 2
        /\ calls[c].sleeps = <<3>>

\* C17 (as claimed): the PackageNotFoundError raised for a 404 carries the
\* package name the call was given, and the version it was given (none for
\* get_package).
C17_NotFoundCarriesRequest ==
    \A c \in Calls :
        (calls[c].pc = "done" /\ calls[c].last_resp.status = 404) =>
            /\ calls[c].raised.type = "PackageNotFoundError"
            /\ calls[c].raised.package = calls[c].package
            /\ calls[c].raised.version = calls[c].version

\* the Digests record that the claim expects for the raw digests object g:
\* the given value of a present algorithm, the empty string for a missing
\* one (a str, never None)
ExpectedDigests(g) ==
    [k \in {"md5", "sha256", "blake2b_256"} |->
        IF k \in DOMAIN g THEN Some(g[k]) ELSE Some("")]

\* C18 (as claimed): in a record that a from_dict built, the Digests of
\* every file has the empty string for each algorithm that the raw digests
\* object lacks, and the given value for each one it has.
C18_MissingDigestIsEmptyString ==
    (outcome.op # "" /\ outcome.raised = NoExc) =>
        \A i \in 1..Len(outcome.value.urls) :
            \A k \in {"md5", "sha256", "blake2b_256"} :
                outcome.value.urls[i].digests[k]
                    = ExpectedDigests(data.urls[i].digests)[k]

\* the keys of the raw "releases" object of the JSON object d
RawKeys(d) == {GetList(d, "releases")[i][1] : i \in 1..Len(GetList(d, "releases"))}

\* C19: PackageMetadata.from_dict fails when a key of the raw releases
\* object is not a parseable version; when it builds a record, every raw
\* key is a version and that version is a key of the record's releases,
\* and every key of the record's releases is the parsed version of a raw
\* key (a Version, not a string).
C19_ReleaseKeysAllParsed ==
    outcome.op = "PackageMetadata.from_dict" =>
        /\ (\E s \in RawKeys(data) : Version(s) = None) => outcome.raised # NoExc
        /\ outcome.raised = NoExc =>
              /\ \A s \in RawKeys(data) :
                    /\ Version(s) # None
                    /\ Version(s)[1] \in DOMAIN outcome.value.releases
              /\ \A v \in DOMAIN outcome.value.releases :
                    \E s \in RawKeys(data) : Version(s) = Some(v)

\* a record built from three raw keys, two of them spellings of one version
C19_Witness ==
    /\ outcome.op = "PackageMetadata.from_dict"
    /\ outcome.raised = NoExc
    /\ RawKeys(data) = {"1.0", "1.0.0", "2.0a1"}
    /\ Cardinality(DOMAIN outcome.value.releases) = 2

\* C20: latest_version of a record with at least one release is the highest
\* of its non-prerelease release versions when there is one, otherwise the
\* highest of all its release versions; it is one of the release keys.
C20_LatestVersion ==
    (latest # None /\ latest[1].raised = NoExc) =>
        LET keys == DOMAIN outcome.value.releases
            stable == {v \in keys : ~is_prerelease(v)}
            among == IF stable # {} THEN stable ELSE keys
        IN /\ keys # {}
           /\ latest[1].value \in keys
           /\ latest[1].value \in among
           /\ \A w \in among : ~VersionLess(latest[1].value, w)

\* 1.0 is the latest version of a package with the releases 1.0 and, both
\* higher, the pre-releases 2.0a1 and 2.1rc1
C20_Witness ==
    /\ latest # None
    /\ latest[1].raised = NoExc
    /\ DOMAIN outcome.value.releases
         = {Version("1.0")[1], Version("2.0a1")[1], Version("2.1rc1")[1]}
    /\ latest[1].value = Version("1.0")[1]

\* C23 (as claimed): whatever the configuration and the responses, no call
\* ends with the RuntimeError "Request failed with no exception" (the
\* attempt loop never ends without a success or a recorded failure).
C23_NoExceptionUnreachable ==
    \A c \in Calls :
        calls[c].pc = "done" => calls[c].raised # NoException

\* the type of record a kind of call returns
RecordType(kind) ==
    IF kind = "get_package" THEN "PackageMetadata" ELSE "ReleaseMetadata"

\* C24 (as claimed): two requests that differ in package, version or kind
\* never have the same cache key: the entry a call finds under its key was
\* stored by a call for the same request, so a call served by the cache
\* gets a record of its own type (get_release a ReleaseMetadata,
\* get_package a PackageMetadata).
C24_CacheKeyInjective ==
    \A c \in Calls :
        (calls[c].pc # "idle" /\ calls[c].pre # None) =>
            /\ SameRequest(calls[c], calls[c].pre[1])
            /\ calls[c].hit => calls[c].result.type = RecordType(calls[c].kind)

\* C25: a call that ends in an error stores nothing in the cache.  Every
\* step of a call that does not end it successfully leaves the cache as it
\* was, except the step that reads the cache, which may drop the expired
\* entry of the call's own key; a call that has raised was not served by
\* the cache and leaves no entry under its key; and every call that is not
\* served by the cache (so also the next one for that key) issues a GET
\* when a session is active and max_retries >= 1.
C25_State ==
    \A c \in Calls :
        /\ (calls[c].pc = "done" /\ calls[c].raised # NoExc)
                => /\ ~calls[c].hit
                   /\ cache # None => calls[c].key \notin DOMAIN cache[1].d
        /\ (calls[c].pc # "idle" /\ ~calls[c].hit /\ calls[c].had_session
                /\ max_retries >= 1)
                => calls[c].gets >= 1
C25_Step ==
    \A c \in Calls :
        /\ (calls[c].pc = "idle" /\ calls'[c].pc # "idle")
                => \/ cache' = cache
                   \/ /\ cache # None
                      /\ calls'[c].key \in DOMAIN cache[1].d
                      /\ now > cache[1].d[calls'[c].key].expires_at
                      /\ cache' = Some([cache[1] EXCEPT
                                          !.d = DictDel(@, calls'[c].key)])
        /\ (InFlight(c) /\ ~(calls'[c].pc = "done" /\ calls'[c].raised = NoExc))
                => /\ cache' = cache
                   /\ stored' = stored
C25_ErrorsNotCached == []C25_State /\ [][C25_Step]_vars

\* a call that found the entry of its key expired, dropped it, and then
\* raised PackageNotFoundError: the cache is empty
C25_Witness ==
    \E c \in Calls :
        /\ calls[c].pc = "done"
        /\ calls[c].raised.type = "PackageNotFoundError"
        /\ calls[c].pre # None
        /\ calls[c].read_at > calls[c].pre[1].at + TTL
        /\ cache = Some([ttl |-> TTL, d |-> EmptyDict])

(* ------------------------------ concurrency --------------------------- *)
Cancelled == LibError("CancelledError")

\* C21: under any interleaving of concurrent calls on a caching client, a
\* call that missed the cache performs its own GET and, when it succeeds,
\* returns the record parsed from its own response; every cache entry holds
\* a complete record of a call that succeeded, and the entry of a key is
\* the record of the call that stored last: a call that stores replaces the
\* entry of its key and leaves the other entries alone.
C21_State ==
    /\ \A c \in Calls :
          (calls[c].pc # "idle" /\ ~calls[c].hit) =>
              /\ calls[c].had_session => calls[c].gets >= 1
              /\ (calls[c].pc = "done" /\ calls[c].raised = NoExc) =>
                    calls[c].result = [id |-> calls[c].n,
                                       type |-> RecordType(calls[c].kind)]
    /\ cache # None =>
          \A k \in DOMAIN cache[1].d :
              /\ k \in DOMAIN stored
              /\ cache[1].d[k].value = stored[k].obj
              /\ stored[k].obj.id \in 1..ncalls
              /\ stored[k].obj.type = RecordType(stored[k].kind)
              /\ k = get_cache_key(stored[k].package, stored[k].version)
C21_Step ==
    \A c \in Calls :
        (InFlight(c) /\ calls'[c].pc = "done" /\ calls'[c].raised = NoExc
            /\ cache # None) =>
            /\ calls[c].key \in DOMAIN cache'[1].d
            /\ cache'[1].d[calls[c].key].value = calls'[c].result
            /\ \A k \in DOMAIN cache[1].d \ {calls[c].key} :
                  /\ k \in DOMAIN cache'[1].d
                  /\ cache'[1].d[k] = cache[1].d[k]
C21_NoCoalescingNoCorruption == []C21_State /\ [][C21_Step]_vars

\* the second call for a key returns its own record, which is now the
\* entry of the key, while the first call for the same key, started
\* earlier, still awaits the response to its own GET
C21_Witness ==
    \E c, o \in Calls :
        /\ calls[c].pc = "done" /\ calls[c].raised = NoExc /\ ~calls[c].hit
        /\ calls[c].n = 2 /\ calls[c].result.id = 2
        /\ calls[o].pc = "get" /\ calls[o].n = 1 /\ calls[o].gets = 1
        /\ calls[o].key = calls[c].key
        /\ cache[1].d[calls[c].key].value.id = 2

\* C22: a call cancelled while it awaits a response or sleeps between two
\* attempts ends there: the step of the cancellation issues no GET, adds no
\* sleep and leaves the cache alone, and the call is finished with the
\* CancelledError raised to its caller and no record.
C22_State ==
    \A c \in Calls :
        calls[c].produced = Cancelled =>
            /\ calls[c].pc = "done"
            /\ calls[c].raised = Cancelled
            /\ calls[c].result = NoObj
C22_Step ==
    \A c \in Calls :
        (InFlight(c) /\ calls'[c].produced = Cancelled) =>
            /\ calls'[c].gets = calls[c].gets
            /\ calls'[c].sleeps = calls[c].sleeps
            /\ cache' = cache
            /\ stored' = stored
C22_CancellationUnwinds == []C22_State /\ [][C22_Step]_vars

\* a call cancelled while it awaited the response to its second GET, with
\* a failed attempt and one sleep behind it
C22_Witness ==
    \E c \in Calls :
        /\ calls[c].pc = "done" /\ calls[c].raised = Cancelled
        /\ calls[c].gets = 2 /\ Len(calls[c].sleeps) = 1
        /\ calls[c].last_resp.transport = "CancelledError"

\* C26 (as claimed): a call whose GET was in progress when clear_cache ran
\* does not put the record of that GET into the cache, so no later call is
\* served such a record.
C26_NoRepopulation ==
    /\ cache # None =>
          \A k \in DOMAIN cache[1].d :
              k \in DOMAIN stored => ~stored[k].get_before_clear
    /\ \A c \in Calls :
          (calls[c].pc # "idle" /\ calls[c].hit /\ calls[c].pre # None) =>
              ~calls[c].pre[1].get_before_clear

\* C27 (as claimed): a GET is only started while a session is active, and a
\* call that, after a sleep, reaches an attempt it still has and finds the
\* session released raises the same RuntimeError as a call started without
\* a session.
C27_State ==
    \A c \in Calls :
        (/\ calls[c].pc = "done" /\ calls[c].had_session /\ ~calls[c].hit
         /\ calls[c].raised \notin {NoExc, Cancelled}
         /\ Len(calls[c].sleeps) = calls[c].gets
         /\ calls[c].gets < max_retries
         /\ session = None)
            => calls[c].raised = NotInitialized
C27_Step ==
    \A c \in Calls : calls'[c].gets > calls[c].gets => session # None
C27_SessionScoped == []C27_State /\ [][C27_Step]_vars

====
